---- MODULE Spec2Model ----
(***************************************************************************)
(* A model of tslearn/utils.py: the LabelCategorizer (fit, transform,      *)
(* inverse_transform), ts_size, to_time_series, to_time_series_dataset and *)
(* the text codec (timeseries_to_str, str_to_timeseries,                   *)
(* save_timeseries_txt, load_timeseries_txt).                              *)
(***************************************************************************)
EXTENDS Integers, Sequences, FiniteSets, TLC

VARIABLES
    single_column_if_binary,  \* LabelCategorizer.single_column_if_binary
    forward_match,            \* LabelCategorizer.forward_match (dict label -> index)
    backward_match,           \* LabelCategorizer.backward_match (list index -> label)
    lastFit,                  \* history: the vector given to the most recent completed fit
    pc,                       \* position of the caller in the specification at hand
    call,                     \* the last call: operation, argument, result
    threads,                  \* the two concurrent fit calls (pc, y, values, i)
    dataset,                  \* the array-like given to to_time_series_dataset
    tsd,                      \* the dataset array the caller holds
    file,                     \* the content of the text file
    series,                   \* the series given to ts_size / timeseries_to_str
    orig                      \* history: the series before any padding was appended

vars == <<single_column_if_binary, forward_match, backward_match, lastFit, pc, call,
          threads, dataset, tsd, file, series, orig>>

tsVars == <<dataset, tsd, file, series, orig>>

lcVars == <<single_column_if_binary, forward_match, backward_match, lastFit>>

-----------------------------------------------------------------------------
(* Bounds *)

MaxLabel == 2     \* labels are -1 and 1..MaxLabel
MaxLen == 3       \* longest label vector given to fit / transform
MaxRows == 1      \* most rows of an array given to inverse_transform directly
MaxRaceLen == 2   \* longest label vector of a concurrent fit

Labels == {-1} \cup (1..MaxLabel)

SeqsUpTo(S, n) == UNION {[1..k -> S] : k \in 0..n}

LabelVectors == SeqsUpTo(Labels, MaxLen)

Range(s) == {s[i] : i \in DOMAIN s}

-----------------------------------------------------------------------------
(* Python dict and list helpers *)

EmptyDict == [k \in {} |-> 0]

DictSet(d, k, v) == [x \in (DOMAIN d) \cup {k} |-> IF x = k THEN v ELSE d[x]]

None == [op |-> "none"]

\* The time-series variables, where no time series is in play.
NoSeries ==
    /\ dataset = None
    /\ tsd = None
    /\ file = << >>
    /\ series = None
    /\ orig = None

\* The LabelCategorizer variables, where no categorizer is in play.
NoCategorizer ==
    /\ single_column_if_binary = FALSE
    /\ forward_match = << >>
    /\ backward_match = << >>
    /\ lastFit = None
    /\ threads = << >>

-----------------------------------------------------------------------------
(* LabelCategorizer *)

\* sorted(): the ascending list of the elements of a set, built by insertion.
Insert(v, s) ==
    LET below == {i \in 1..Len(s) : s[i] < v}
        k == Cardinality(below)
    IN  SubSeq(s, 1, k) \o <<v>> \o SubSeq(s, k + 1, Len(s))

RECURSIVE sorted(_)
sorted(S) ==
    IF S = {} THEN << >>
    ELSE LET x == CHOOSE x \in S : TRUE
         IN  Insert(x, sorted(S \ {x}))

\* _init that leaves the structures of the previous fit in place.
InitState_keep == [forward_match |-> forward_match, backward_match |-> backward_match]

\* _init: both structures are replaced by fresh empty ones.
InitState == [forward_match |-> EmptyDict, backward_match |-> << >>]

\* One iteration of fit's loop: forward_match[v] = i; backward_match.append(v).
FitStep(st, i, v) ==
    [forward_match |-> DictSet(st.forward_match, v, i),
     backward_match |-> Append(st.backward_match, v)]

RECURSIVE FitLoop(_, _, _)
FitLoop(st, values, i) ==
    IF i >= Len(values) THEN st
    ELSE FitLoop(FitStep(st, i, values[i + 1]), values, i + 1)

\* fit(y), run alone: _init, values = sorted(set(y)), the loop.
fit(y) == FitLoop(InitState, sorted(Range(y)), 0)

\* A numpy array of shape (n, c): the shape and the rows.
Array(n, c, rows) == [shape |-> <<n, c>>, data |-> rows]

\* A row whose 1 is written one column early.
OneHotRow_shift(c, k) == [j \in 1..c |-> IF j = k THEN 1 ELSE 0]

OneHotRow(c, k) == [j \in 1..c |-> IF j = k + 1 THEN 1 ELSE 0]

\* transform whose collapsed format returns column 1 instead of column 0.
transform_col1(fm, bm, flag, y) ==
    LET n_classes == Len(bm)
        n == Len(y)
    IN  IF \E i \in 1..n : y[i] \notin DOMAIN fm
        THEN [err |-> "KeyError"]
        ELSE LET y_out == [i \in 1..n |-> [j \in 1..n_classes |->
                                              IF j = fm[y[i]] + 1 THEN 1 ELSE 0]]
             IN  IF n_classes = 2 /\ flag
                 THEN [err |-> "none",
                       val |-> Array(n, 1, [i \in 1..n |-> <<y_out[i][2]>>])]
                 ELSE [err |-> "none", val |-> Array(n, n_classes, y_out)]

\* transform(y) on the state (fm, bm) with flag single_column_if_binary.
transform(fm, bm, flag, y) ==
    LET n_classes == Len(bm)
        n == Len(y)
    IN  IF \E i \in 1..n : y[i] \notin DOMAIN fm
        THEN [err |-> "KeyError"]
        ELSE LET y_out == [i \in 1..n |-> OneHotRow(n_classes, fm[y[i]])]
             IN  IF n_classes = 2 /\ flag
                 THEN [err |-> "none",
                       val |-> Array(n, 1, [i \in 1..n |-> <<y_out[i][1]>>])]
                 ELSE [err |-> "none", val |-> Array(n, n_classes, y_out)]

\* numpy argmax of a non-empty row: the first index (0-based) of the maximum.
argmax(row) ==
    CHOOSE k \in 0..(Len(row) - 1) :
        /\ \A j \in 1..Len(row) : row[j] <= row[k + 1]
        /\ \A j \in 1..k : row[j] < row[k + 1]

\* inverse_transform(y) on the state bm with flag single_column_if_binary.
inverse_transform(bm, flag, y) ==
    LET n == y.shape[1]
        n_c == y.shape[2]
        y_ == IF n_c = 1 /\ flag
              THEN [i \in 1..n |-> <<y.data[i][1], 1 - y.data[i][1]>>]
              ELSE y.data
    IN  IF n > 0 /\ Len(y_[1]) = 0
        THEN [err |-> "ValueError"]
        ELSE IF \E i \in 1..n : argmax(y_[i]) >= Len(bm)
        THEN [err |-> "IndexError"]
        ELSE [err |-> "none", val |-> [i \in 1..n |-> bm[argmax(y_[i]) + 1]]]

\* Arrays a caller may hand to inverse_transform: up to MaxRows rows of c columns,
\* each row one-hot or all zero.
RowsOf(c) == {OneHotRow(c, k) : k \in 0..c}

ArrayInputs(maxc) ==
    UNION {{Array(n, c, rows) : rows \in [1..n -> RowsOf(c)]} :
           <<n, c>> \in (1..MaxRows) \X (0..maxc)}

-----------------------------------------------------------------------------
(* Floating-point values and numpy arrays *)

MaxVal == 0     \* finite values are 0..MaxVal, counted in halves (k stands for k/2)
MaxCells == 3   \* most values in one input (a series, or a whole batch)
MaxDim == 2     \* largest dimensionality of an input series
MaxTs == 2      \* most entries of an input batch
MaxPad == 2     \* most all-NaN timesteps appended to a series

NaN == <<"nan", 0>>
Inf == <<"inf", 0>>
Num(k) == <<"num", k>>

Vals == {NaN, Inf} \cup {Num(k) : k \in 0..MaxVal}

\* A test that takes only NaN, not infinity, as missing.
isfinite_notnan(v) == v[1] # "nan"

\* numpy.isfinite
isfinite(v) == v[1] = "num"

\* An array of one axis (sz values) or of two (sz rows of d values): its shape and
\* its buffer, held as rows of the last axis (a flat array has one value per row).
Array1(vs) == [shape |-> <<Len(vs)>>, data |-> [i \in 1..Len(vs) |-> <<vs[i]>>]]
Array2(sz, d, rows) == [shape |-> <<sz, d>>, data |-> rows]

ndim(a) == Len(a.shape)

NaNRow(d) == [j \in 1..d |-> NaN]

Max(S) == CHOOSE m \in S : \A x \in S : x <= m

-----------------------------------------------------------------------------
(* to_time_series, ts_size, to_time_series_dataset *)

\* to_time_series without remove_nans: copy, reshape((-1, 1)) of a flat array, float.
ToFloat2D(ts) ==
    IF ndim(ts) = 1
    THEN Array2(ts.shape[1], 1, ts.data)
    ELSE ts

\* The loop with numpy.all in place of numpy.any.
RECURSIVE TsSizeLoop_all(_, _)
TsSizeLoop_all(ts_, sz) ==
    IF sz > 0 /\ ~(\A j \in 1..Len(ts_.data[sz]) : ts_.data[sz][j][1] = "num")
    THEN TsSizeLoop_all(ts_, sz - 1)
    ELSE sz

\* ts_size's loop: while sz > 0 and not any(isfinite(ts_[sz - 1])): sz -= 1
RECURSIVE TsSizeLoop(_, _)
TsSizeLoop(ts_, sz) ==
    IF sz > 0 /\ ~(\E j \in 1..Len(ts_.data[sz]) : isfinite(ts_.data[sz][j]))
    THEN TsSizeLoop(ts_, sz - 1)
    ELSE sz

ts_size(ts) == TsSizeLoop(ToFloat2D(ts), ToFloat2D(ts).shape[1])

to_time_series(ts, remove_nans) ==
    LET ts_out == ToFloat2D(ts)
    IN  IF remove_nans
        THEN Array2(ts_size(ts_out), ts_out.shape[2],
                    SubSeq(ts_out.data, 1, ts_size(ts_out)))
        ELSE ts_out

\* dataset_out[i, :ts.shape[0]] = ts, for ts of shape (sz, dts) into rows of d values:
\* numpy broadcasts a single column over the d features and refuses anything else.
CanAssign(d, ts) == ts.shape[2] = d \/ ts.shape[2] = 1

AssignPrefix(row, d, ts) ==
    [t \in 1..Len(row) |->
        IF t <= ts.shape[1]
        THEN [j \in 1..d |-> IF ts.shape[2] = d THEN ts.data[t][j] ELSE ts.data[t][1]]
        ELSE row[t]]

\* The loop of to_time_series_dataset over the entries, from entry i on.
RECURSIVE DatasetLoop(_, _, _, _)
DatasetLoop(items, out, d, i) ==
    IF i > Len(items) THEN [err |-> "none", val |-> out]
    ELSE LET ts == to_time_series(items[i], TRUE)
         IN  IF ~CanAssign(d, ts) THEN [err |-> "ValueError"]
             ELSE DatasetLoop(items,
                              [out EXCEPT !.data[i] = AssignPrefix(out.data[i], d, ts)],
                              d, i + 1)

\* An argument of to_time_series_dataset: a flat sequence of scalars (which the
\* function promotes to a batch of one series) or a sequence of array-likes.
FlatInput(vs) == [flat |-> TRUE, scalars |-> vs, items |-> << >>]
BatchInput(es) == [flat |-> FALSE, scalars |-> << >>, items |-> es]

\* to_time_series_dataset(dataset)
to_time_series_dataset(ds) ==
    IF Len(ds.items) = 0 /\ Len(ds.scalars) = 0 THEN [err |-> "IndexError"]
    ELSE LET items == IF ds.flat THEN <<Array1(ds.scalars)>> ELSE ds.items
             n_ts == Len(items)
             max_sz == Max({ts_size(to_time_series(items[i], FALSE)) : i \in 1..n_ts})
             d == to_time_series(items[1], FALSE).shape[2]
             dataset_out == [shape |-> <<n_ts, max_sz, d>>,
                             data |-> [i \in 1..n_ts |-> [t \in 1..max_sz |-> NaNRow(d)]]]
         IN  DatasetLoop(items, dataset_out, d, 1)

-----------------------------------------------------------------------------
(* The text codec. A string is a sequence of atoms: a numeric literal (with the
   value it denotes), "nan", "inf", a space, a bar, a newline. *)

Lit(k) == <<"lit", k>>
NanTok == <<"nan", 0>>
InfTok == <<"inf", 0>>
Space == <<"sp", 0>>
Bar == <<"bar", 0>>
Newline == <<"nl", 0>>

Formats == {"%.18e", "%.0f"}

\* "%.0f" of k halves: the nearest integer, a tie going to the even one.
RoundHalfEven(k) ==
    LET q == k \div 2
    IN  IF k % 2 = 0 THEN q ELSE IF q % 2 = 0 THEN q ELSE q + 1

\* fmt % v
Format(fmt, v) ==
    IF v = NaN THEN NanTok
    ELSE IF v = Inf THEN InfTok
    ELSE IF fmt = "%.0f" THEN Lit(2 * RoundHalfEven(v[2]))
    ELSE Lit(v[2])

\* sep.join(strs)
RECURSIVE Join(_, _)
Join(sep, strs) ==
    IF Len(strs) = 0 THEN << >>
    ELSE IF Len(strs) = 1 THEN strs[1]
    ELSE strs[1] \o <<sep>> \o Join(sep, Tail(strs))

\* The loop of timeseries_to_str over the dimensions.
RECURSIVE ToStrLoop(_, _, _, _)
ToStrLoop(ts_, fmt, d, s) ==
    IF d >= ts_.shape[2] THEN s
    ELSE LET joined == Join(Space, [t \in 1..ts_.shape[1] |->
                                        <<Format(fmt, ts_.data[t][d + 1])>>])
         IN  ToStrLoop(ts_, fmt, d + 1,
                       s \o joined \o (IF d < ts_.shape[2] - 1 THEN <<Bar>> ELSE << >>))

timeseries_to_str(ts, fmt) == ToStrLoop(to_time_series(ts, FALSE), fmt, 0, << >>)

\* str.split(sep): the pieces between the separators, empty pieces included.
RECURSIVE Split(_, _)
Split(str, sep) ==
    IF \A i \in 1..Len(str) : str[i] # sep THEN <<str>>
    ELSE LET k == CHOOSE i \in 1..Len(str) :
                      str[i] = sep /\ \A j \in 1..(i - 1) : str[j] # sep
         IN  <<SubSeq(str, 1, k - 1)>> \o Split(SubSeq(str, k + 1, Len(str)), sep)

\* Surrounding whitespace is ignored when a string is read as a float.
RECURSIVE Strip(_)
Strip(str) ==
    IF Len(str) > 0 /\ str[1] \in {Space, Newline} THEN Strip(Tail(str))
    ELSE IF Len(str) > 0 /\ str[Len(str)] \in {Space, Newline}
    THEN Strip(SubSeq(str, 1, Len(str) - 1))
    ELSE str

IsFloat(str) == Len(Strip(str)) = 1 /\ Strip(str)[1][1] \in {"lit", "nan", "inf"}

ParseFloat(str) ==
    LET a == Strip(str)[1]
    IN  IF a[1] = "lit" THEN Num(a[2]) ELSE IF a[1] = "nan" THEN NaN ELSE Inf

\* str_to_timeseries(ts_str)
str_to_timeseries(ts_str) ==
    LET dimensions == Split(ts_str, Bar)
        ts == [k \in 1..Len(dimensions) |-> Split(dimensions[k], Space)]
        sz == Len(ts[1])
    IN  IF \E k \in 1..Len(ts) : Len(ts[k]) # sz THEN [err |-> "ValueError"]
        ELSE IF \E k \in 1..Len(ts) : \E t \in 1..sz : ~IsFloat(ts[k][t])
        THEN [err |-> "ValueError"]
        ELSE [err |-> "none",
              val |-> Array2(sz, Len(ts),
                             [t \in 1..sz |-> [k \in 1..Len(ts) |-> ParseFloat(ts[k][t])]])]

\* The text save_timeseries_txt writes: one line per series, each ended by "\n".
RECURSIVE SaveLoop(_, _, _)
SaveLoop(ds, fmt, i) ==
    IF i > ds.shape[1] THEN << >>
    ELSE timeseries_to_str(Array2(ds.shape[2], ds.shape[3], ds.data[i]), fmt)
         \o <<Newline>> \o SaveLoop(ds, fmt, i + 1)

save_timeseries_txt(ds, fmt) == SaveLoop(ds, fmt, 1)

\* fp.readlines(): the lines, each with its newline.
RECURSIVE readlines(_)
readlines(text) ==
    IF Len(text) = 0 THEN << >>
    ELSE IF \A i \in 1..Len(text) : text[i] # Newline THEN <<text>>
    ELSE LET k == CHOOSE i \in 1..Len(text) :
                      text[i] = Newline /\ \A j \in 1..(i - 1) : text[j] # Newline
         IN  <<SubSeq(text, 1, k)>> \o readlines(SubSeq(text, k + 1, Len(text)))

\* load_timeseries_txt on the file's text.
load_timeseries_txt(text) ==
    LET rows == readlines(text)
        parsed == [i \in 1..Len(rows) |-> str_to_timeseries(rows[i])]
    IN  IF \E i \in 1..Len(rows) : parsed[i].err # "none" THEN [err |-> "ValueError"]
        ELSE to_time_series_dataset(BatchInput([i \in 1..Len(rows) |-> parsed[i].val]))


-----------------------------------------------------------------------------
(* Sequential use of one LabelCategorizer: any series of calls *)

Unfitted == [fitted |-> FALSE, y |-> << >>, dropped |-> FALSE]

InitSeq ==
    /\ single_column_if_binary \in BOOLEAN
    /\ forward_match = EmptyDict
    /\ backward_match = << >>
    /\ lastFit = Unfitted
    /\ pc = "seq"
    /\ call = None
    /\ NoSeries
    /\ threads = << >>

\* lc.fit(y)
Fit(y) ==
    /\ pc = "seq"
    /\ forward_match' = fit(y).forward_match
    /\ backward_match' = fit(y).backward_match
    /\ lastFit' = [fitted |-> TRUE, y |-> y,
                   dropped |-> lastFit.fitted /\ Range(lastFit.y) \ Range(y) # {}]
    /\ call' = [op |-> "fit", err |-> "none"]
    /\ UNCHANGED <<single_column_if_binary, pc, threads, tsVars>>

\* lc.transform(y): reads the state, returns an array or raises
Transform(y) ==
    /\ pc = "seq"
    /\ call' = [op |-> "transform",
                err |-> transform(forward_match, backward_match,
                                  single_column_if_binary, y).err]
    /\ UNCHANGED <<lcVars, pc, threads, tsVars>>

\* lc.inverse_transform(a): reads the state, returns labels or raises
InverseTransform(a) ==
    /\ pc = "seq"
    /\ call' = [op |-> "inverse_transform",
                err |-> inverse_transform(backward_match, single_column_if_binary, a).err]
    /\ UNCHANGED <<lcVars, pc, threads, tsVars>>

NextSeq ==
    \/ \E y \in LabelVectors : Fit(y)
    \/ \E y \in LabelVectors : Transform(y)
    \/ \E a \in ArrayInputs(Len(backward_match) + 1) : InverseTransform(a)

SpecSeq == InitSeq /\ [][NextSeq]_vars

-----------------------------------------------------------------------------
(* One chain of calls: construct, fit(y), transform(y2), inverse_transform *)

InitCalls ==
    /\ single_column_if_binary \in BOOLEAN
    /\ forward_match = EmptyDict
    /\ backward_match = << >>
    /\ lastFit = Unfitted
    /\ pc = "new"
    /\ call = None
    /\ NoSeries
    /\ threads = << >>

FitOn(y) ==
    /\ pc = "new"
    /\ forward_match' = fit(y).forward_match
    /\ backward_match' = fit(y).backward_match
    /\ lastFit' = [fitted |-> TRUE, y |-> y, dropped |-> FALSE]
    /\ call' = [op |-> "fit", arg |-> y]
    /\ pc' = "fitted"
    /\ UNCHANGED <<single_column_if_binary, threads, tsVars>>

TransformOf(y) ==
    /\ pc = "fitted"
    /\ call' = [op |-> "transform", arg |-> y,
                ret |-> transform(forward_match, backward_match,
                                  single_column_if_binary, y)]
    /\ pc' = "transformed"
    /\ UNCHANGED <<lcVars, threads, tsVars>>

\* inverse_transform of the array the preceding transform returned
InverseOfTransform ==
    /\ pc = "transformed"
    /\ call.ret.err = "none"
    /\ call' = [op |-> "inverse_transform", arg |-> call.ret.val, of |-> call.arg,
                round |-> TRUE,
                ret |-> inverse_transform(backward_match, single_column_if_binary,
                                          call.ret.val)]
    /\ pc' = "inverted"
    /\ UNCHANGED <<lcVars, threads, tsVars>>

\* inverse_transform of an array the caller built
InverseOfArray(a) ==
    /\ pc = "fitted"
    /\ call' = [op |-> "inverse_transform", arg |-> a, of |-> << >>,
                round |-> FALSE,
                ret |-> inverse_transform(backward_match, single_column_if_binary, a)]
    /\ pc' = "inverted"
    /\ UNCHANGED <<lcVars, threads, tsVars>>

NextCalls ==
    \/ \E y \in LabelVectors : FitOn(y)
    \/ \E y \in LabelVectors : TransformOf(y)
    \/ InverseOfTransform
    \/ \E a \in ArrayInputs(Len(backward_match) + 1) : InverseOfArray(a)

SpecCalls == InitCalls /\ [][NextCalls]_vars

-----------------------------------------------------------------------------
(* Two fit calls on the same instance, their statements interleaved *)

Tids == {1, 2}

RaceVectors == SeqsUpTo(Labels, MaxRaceLen)

InitRace ==
    /\ single_column_if_binary = FALSE
    /\ forward_match = EmptyDict
    /\ backward_match = << >>
    /\ lastFit = Unfitted
    /\ pc = "race"
    /\ call = None
    /\ NoSeries
    /\ threads \in [Tids -> {[pc |-> "init_fm", y |-> y, values |-> << >>, i |-> 0] :
                             y \in RaceVectors}]

\* _init, first statement: self.forward_match = {}
RaceInitForward(t) ==
    /\ pc = "race" /\ threads[t].pc = "init_fm"
    /\ forward_match' = EmptyDict
    /\ threads' = [threads EXCEPT ![t].pc = "init_bm"]
    /\ UNCHANGED <<single_column_if_binary, backward_match, lastFit, pc, call, tsVars>>

\* _init, second statement: self.backward_match = []
RaceInitBackward(t) ==
    /\ pc = "race" /\ threads[t].pc = "init_bm"
    /\ backward_match' = << >>
    /\ threads' = [threads EXCEPT ![t].pc = "values"]
    /\ UNCHANGED <<single_column_if_binary, forward_match, lastFit, pc, call, tsVars>>

\* values = sorted(set(y)); the loop starts (or ends at once)
RaceValues(t) ==
    /\ pc = "race" /\ threads[t].pc = "values"
    /\ LET values == sorted(Range(threads[t].y))
       IN  threads' = [threads EXCEPT ![t].values = values,
                                      ![t].pc = IF Len(values) = 0 THEN "done" ELSE "fm"]
    /\ UNCHANGED <<lcVars, pc, call, tsVars>>

\* self.forward_match[v] = i, on the dict the attribute names now
RaceForward(t) ==
    /\ pc = "race" /\ threads[t].pc = "fm"
    /\ forward_match' = FitStep([forward_match |-> forward_match,
                                 backward_match |-> backward_match],
                                threads[t].i,
                                threads[t].values[threads[t].i + 1]).forward_match
    /\ threads' = [threads EXCEPT ![t].pc = "bm"]
    /\ UNCHANGED <<single_column_if_binary, backward_match, lastFit, pc, call, tsVars>>

\* self.backward_match.append(v), on the list the attribute names now; next i
RaceBackward(t) ==
    /\ pc = "race" /\ threads[t].pc = "bm"
    /\ backward_match' = FitStep([forward_match |-> forward_match,
                                  backward_match |-> backward_match],
                                 threads[t].i,
                                 threads[t].values[threads[t].i + 1]).backward_match
    /\ threads' = [threads EXCEPT ![t].i = @ + 1,
                                  ![t].pc = IF threads[t].i + 1 >= Len(threads[t].values)
                                            THEN "done" ELSE "fm"]
    /\ UNCHANGED <<single_column_if_binary, forward_match, lastFit, pc, call, tsVars>>

NextRace ==
    \E t \in Tids :
        \/ RaceInitForward(t)
        \/ RaceInitBackward(t)
        \/ RaceValues(t)
        \/ RaceForward(t)
        \/ RaceBackward(t)

SpecRace == InitRace /\ [][NextRace]_vars

-----------------------------------------------------------------------------
(* A batch through to_time_series_dataset, then save_timeseries_txt and
   load_timeseries_txt *)

\* The array-likes of exactly c values: flat, or of two axes with d <= MaxDim.
EntriesWith(c) ==
    {Array1(vs) : vs \in [1..c -> Vals]}
    \cup UNION {{Array2(c \div d, d, rows) : rows \in [1..(c \div d) -> [1..d -> Vals]]} :
                d \in {e \in 1..MaxDim : c % e = 0}}

\* The number of values an array holds.
Cells(e) == IF Len(e.shape) = 1 THEN e.shape[1] ELSE e.shape[1] * e.shape[2]

RECURSIVE CellsOfAll(_)
CellsOfAll(es) == IF Len(es) = 0 THEN 0 ELSE Cells(es[1]) + CellsOfAll(Tail(es))

\* The caller starts from an empty list, or from a flat series of scalars.
Init ==
    /\ NoCategorizer
    /\ pc = "build"
    /\ call = None
    /\ dataset \in {BatchInput(<< >>)}
                   \cup {FlatInput(vs) : vs \in SeqsUpTo(Vals, MaxCells) \ {<< >>}}
    /\ tsd = None
    /\ file = << >>
    /\ series = None
    /\ orig = None

\* The caller appends one more array-like to the batch.
AppendEntry(e) ==
    /\ pc = "build"
    /\ ~dataset.flat
    /\ Len(dataset.items) < MaxTs
    /\ CellsOfAll(dataset.items) + Cells(e) <= MaxCells
    /\ dataset' = BatchInput(Append(dataset.items, e))
    /\ UNCHANGED <<lcVars, threads, pc, call, tsd, file, series, orig>>

\* tsd = to_time_series_dataset(dataset)
ToTimeSeriesDataset ==
    /\ pc = "build"
    /\ LET r == to_time_series_dataset(dataset)
       IN  /\ call' = [op |-> "to_time_series_dataset", ret |-> r]
           /\ tsd' = IF r.err = "none" THEN r.val ELSE tsd
           /\ pc' = IF r.err = "none" THEN "dataset" ELSE "failed"
    /\ UNCHANGED <<lcVars, threads, dataset, file, series, orig>>

\* save_timeseries_txt(fname, tsd, fmt)
SaveTimeseriesTxt(fmt) ==
    /\ pc = "dataset"
    /\ file' = save_timeseries_txt(tsd, fmt)
    /\ call' = [op |-> "save_timeseries_txt", fmt |-> fmt]
    /\ pc' = "saved"
    /\ UNCHANGED <<lcVars, threads, dataset, tsd, series, orig>>

\* load_timeseries_txt(fname)
LoadTimeseriesTxt ==
    /\ pc = "saved"
    /\ call' = [op |-> "load_timeseries_txt", fmt |-> call.fmt,
                ret |-> load_timeseries_txt(file)]
    /\ pc' = "loaded"
    /\ UNCHANGED <<lcVars, threads, tsVars>>

\* Building a batch and converting it.
Next ==
    \/ \E c \in 0..MaxCells : \E e \in EntriesWith(c) : AppendEntry(e)
    \/ ToTimeSeriesDataset

Spec == Init /\ [][Next]_vars

\* The same, followed by saving the dataset to a file and reading it back.
NextFile ==
    \/ Next
    \/ \E fmt \in Formats : SaveTimeseriesTxt(fmt)
    \/ LoadTimeseriesTxt

SpecFile == Init /\ [][NextFile]_vars

-----------------------------------------------------------------------------
(* One series through ts_size and timeseries_to_str, padded or not *)

SeriesInputs == UNION {EntriesWith(c) : c \in 0..MaxCells}

InitSeries ==
    /\ NoCategorizer
    /\ pc = "series"
    /\ call = None
    /\ dataset = None
    /\ tsd = None
    /\ file = << >>
    /\ series \in SeriesInputs
    /\ orig = series

\* Timesteps appended since the start.
Padding == series.shape[1] - orig.shape[1]

\* The caller appends one all-NaN timestep to the series.
Pad ==
    /\ pc = "series"
    /\ Padding < MaxPad
    /\ series' = IF ndim(series) = 1
                 THEN Array1([i \in 1..(series.shape[1] + 1) |->
                                IF i <= series.shape[1] THEN series.data[i][1] ELSE NaN])
                 ELSE Array2(series.shape[1] + 1, series.shape[2],
                             Append(series.data, NaNRow(series.shape[2])))
    /\ call' = None
    /\ UNCHANGED <<lcVars, threads, pc, dataset, tsd, file, orig>>

\* ts_size(series)
TsSize ==
    /\ pc = "series"
    /\ call' = [op |-> "ts_size", ret |-> ts_size(series)]
    /\ UNCHANGED <<lcVars, threads, pc, tsVars>>

\* timeseries_to_str(series, fmt)
TimeseriesToStr(fmt) ==
    /\ pc = "series"
    /\ call' = [op |-> "timeseries_to_str", fmt |-> fmt,
                ret |-> timeseries_to_str(series, fmt)]
    /\ UNCHANGED <<lcVars, threads, pc, tsVars>>

NextSeries ==
    \/ Pad
    \/ TsSize
    \/ \E fmt \in Formats : TimeseriesToStr(fmt)

SpecSeries == InitSeries /\ [][NextSeries]_vars

-----------------------------------------------------------------------------
(* Properties of the LabelCategorizer *)

\* The fitted index of a label: its rank among the distinct labels of the fit.
Rank(label, y) == Cardinality({l \in Range(y) : l < label})

\* C1: on a categorizer fitted on y (one or more labels), inverse_transform of
\* transform(y) returns y element by element, with single_column_if_binary set or not.
C1_RoundTrip ==
    (pc = "inverted" /\ call.round /\ call.of = lastFit.y /\ Len(lastFit.y) >= 1)
        => (call.ret.err = "none" /\ call.ret.val = lastFit.y)

\* The round trip of a three-label vector over two classes in the collapsed format.
C1_Witness ==
    /\ pc = "inverted" /\ call.round /\ call.of = lastFit.y
    /\ single_column_if_binary
    /\ Len(lastFit.y) = 3 /\ Cardinality(Range(lastFit.y)) = 2
    /\ call.arg.shape = <<3, 1>>
    /\ call.ret.err = "none" /\ call.ret.val = lastFit.y

\* C8: transform of n fitted labels returns an (n, C) array whose row i has 1 in the
\* column of label i's fitted index and 0 elsewhere; with C = 2 and
\* single_column_if_binary it returns (n, 1), 1 exactly for the smallest class.
C8_TransformOneHot ==
    (pc = "transformed" /\ Range(call.arg) \subseteq Range(lastFit.y))
        => LET y == call.arg
               n == Len(y)
               C == Cardinality(Range(lastFit.y))
           IN  /\ call.ret.err = "none"
               /\ IF C = 2 /\ single_column_if_binary
                  THEN /\ call.ret.val.shape = <<n, 1>>
                       /\ \A i \in 1..n :
                            call.ret.val.data[i] =
                                <<IF Rank(y[i], lastFit.y) = 0 THEN 1 ELSE 0>>
                  ELSE /\ call.ret.val.shape = <<n, C>>
                       /\ \A i \in 1..n :
                            /\ Len(call.ret.val.data[i]) = C
                            /\ \A j \in 1..C :
                                 call.ret.val.data[i][j] =
                                     (IF j - 1 = Rank(y[i], lastFit.y) THEN 1 ELSE 0)

\* A transform of both classes of a binary fit in the collapsed format.
C8_Witness ==
    /\ pc = "transformed" /\ single_column_if_binary
    /\ Cardinality(Range(lastFit.y)) = 2
    /\ Range(call.arg) = Range(lastFit.y)
    /\ call.ret.err = "none" /\ call.ret.val.shape = <<Len(call.arg), 1>>

\* C7 (as claimed): inverse_transform raises whenever the column count of its input
\* is inconsistent with the C fitted classes (neither C, nor 1 in the collapsed
\* format with C = 2).
C7_InconsistentColumnsFail ==
    (pc = "inverted" /\ ~call.round
     /\ call.arg.shape[2] # Len(backward_match)
     /\ ~(call.arg.shape[2] = 1 /\ single_column_if_binary /\ Len(backward_match) = 2))
        => call.ret.err # "none"

\* C10: the stored state is that of the most recent fit alone: backward_match is the
\* strictly increasing list of the distinct labels of that fit's vector, forward_match
\* has exactly those labels as keys and inverts backward_match; before any fit both
\* are empty. transform and inverse_transform, failing or not, change neither.
C10_StateOfLastFit ==
    pc = "seq" =>
        /\ \A i \in 1..(Len(backward_match) - 1) : backward_match[i] < backward_match[i + 1]
        /\ Range(backward_match) = Range(lastFit.y)
        /\ DOMAIN forward_match = Range(lastFit.y)
        /\ \A i \in 1..Len(backward_match) : forward_match[backward_match[i]] = i - 1

\* A transform that failed on a label an earlier fit knew and the latest fit dropped.
C10_Witness ==
    /\ pc = "seq" /\ lastFit.fitted /\ lastFit.dropped
    /\ call.op = "transform" /\ call.err = "KeyError"
    /\ Len(backward_match) >= 2

\* C9 (as claimed): when both concurrent fit calls have returned, the state is that
\* of one of the two calls run alone, never a mixture.
C9_LastWriterState ==
    (pc = "race" /\ \A t \in Tids : threads[t].pc = "done")
        => \E t \in Tids :
             /\ backward_match = fit(threads[t].y).backward_match
             /\ forward_match = fit(threads[t].y).forward_match

-----------------------------------------------------------------------------
(* Properties of the time-series functions *)

\* A value that is neither NaN nor infinite.
IsReal(v) == v[1] = "num"

\* The effective length of a sequence of timesteps: one past the last timestep
\* that has a finite feature.
EffLen(rows) == Max({0} \cup {t \in 1..Len(rows) : \E j \in 1..Len(rows[t]) : IsReal(rows[t][j])})

\* The entries of an input of to_time_series_dataset and their dimensionalities.
EntriesOf(ds) == IF ds.flat THEN <<Array1(ds.scalars)>> ELSE ds.items
DimOf(e) == IF Len(e.shape) = 1 THEN 1 ELSE e.shape[2]

\* C2: for a batch of n >= 1 series of common dimensionality d and effective lengths
\* L_1..L_n, to_time_series_dataset returns shape (n, max L_i, d); row i holds entry
\* i's first L_i timesteps and NaN in every feature from index L_i on.
C2_DatasetShapeAndPadding ==
    LET es == EntriesOf(dataset)
        n == Len(es)
    IN  (pc \in {"dataset", "failed"} /\ n >= 1 /\ \A i \in 1..n : DimOf(es[i]) = DimOf(es[1]))
        => LET d == DimOf(es[1])
               maxL == Max({EffLen(es[i].data) : i \in 1..n})
           IN  /\ call.ret.err = "none"
               /\ call.ret.val.shape = <<n, maxL, d>>
               /\ Len(call.ret.val.data) = n
               /\ \A i \in 1..n :
                    /\ Len(call.ret.val.data[i]) = maxL
                    /\ \A t \in 1..maxL :
                         call.ret.val.data[i][t] =
                             (IF t <= EffLen(es[i].data) THEN es[i].data[t]
                              ELSE [j \in 1..d |-> <<"nan", 0>>])

\* Two entries: two real timesteps, and a lone NaN timestep (effective length 0)
\* that is trimmed and then padded to the common length.
C2_Witness ==
    /\ pc = "dataset" /\ ~dataset.flat /\ Len(dataset.items) = 2
    /\ EffLen(dataset.items[1].data) = 2
    /\ dataset.items[2].shape[1] = 1 /\ EffLen(dataset.items[2].data) = 0
    /\ tsd.shape = <<2, 2, 1>>
    /\ tsd.data[2] = <<(<<(<<"nan", 0>>)>>), (<<(<<"nan", 0>>)>>)>>

\* C3 (as claimed): whenever a later entry that holds data has a dimensionality
\* other than the first entry's, to_time_series_dataset fails; it returns no dataset
\* in which that entry's data was broadcast to d features.
C3_MismatchFails ==
    (pc \in {"dataset", "failed"}
     /\ \E i \in 1..Len(EntriesOf(dataset)) :
            /\ DimOf(EntriesOf(dataset)[i]) # DimOf(EntriesOf(dataset)[1])
            /\ EffLen(EntriesOf(dataset)[i].data) >= 1)
        => call.ret.err # "none"

\* The atoms of a string that are values, not separators.
Tokens(str) == {i \in 1..Len(str) : str[i][1] \in {"lit", "nan", "inf"}}

\* C4 (as claimed): for a series with k >= 1 trailing all-NaN timesteps, the line
\* timeseries_to_str produces holds exactly effective-length tokens per dimension.
C4_NoPaddingEmitted ==
    (pc = "series" /\ call.op = "timeseries_to_str" /\ Padding >= 1)
        => Cardinality(Tokens(call.ret)) = EffLen(series.data) * DimOf(series)

\* The tolerance of a format, in halves: "%.0f" is within half a unit.
Tolerance(fmt) == IF fmt = "%.0f" THEN 1 ELSE 0

Close(fmt, a, b) ==
    IF IsReal(a) THEN IsReal(b) /\ a[2] - b[2] <= Tolerance(fmt) /\ b[2] - a[2] <= Tolerance(fmt)
    ELSE a = b

\* C5 (as claimed): a dataset saved and read back is returned with the same shape,
\* every real value within the format's precision and every NaN still NaN.
C5_SaveLoadRoundTrip ==
    pc = "loaded"
        => /\ call.ret.err = "none"
           /\ call.ret.val.shape = tsd.shape
           /\ \A i \in 1..tsd.shape[1] : \A t \in 1..tsd.shape[2] : \A j \in 1..tsd.shape[3] :
                Close(call.fmt, tsd.data[i][t][j], call.ret.val.data[i][t][j])

\* C6: ts_size returns the index one past the last timestep with a finite feature:
\* 0 for an empty or all-NaN series, NaN timesteps before a real one counted, and
\* the same with any number of all-NaN timesteps appended.
C6_TsSize ==
    (pc = "series" /\ call.op = "ts_size")
        => /\ call.ret = EffLen(series.data)
           /\ call.ret = EffLen(orig.data)
           /\ call.ret <= orig.shape[1]
           /\ (\A t \in 1..series.shape[1] : \A j \in 1..DimOf(series) :
                   ~IsReal(series.data[t][j])) => call.ret = 0
           /\ call.ret > 0 => \E j \in 1..DimOf(series) : IsReal(series.data[call.ret][j])

\* The size of a series that starts with an all-NaN timestep, ends with a real one
\* and has had two all-NaN timesteps appended.
C6_Witness ==
    /\ pc = "series" /\ call.op = "ts_size"
    /\ Padding = 2
    /\ orig.shape[1] = 2
    /\ \A j \in 1..DimOf(orig) : orig.data[1][j] = <<"nan", 0>>
    /\ call.ret = 2

====
